---- MODULE Spec2Model ----
(***************************************************************************)
(* Model of package money (money.go): New formats a float64 amount into a  *)
(* price string using a currency record and an options map.                *)
(*                                                                         *)
(* Strings are sequences of one-byte strings.  A currency symbol or ISO    *)
(* code is a single element of such a sequence: the code only ever         *)
(* concatenates them, it never slices them.                                *)
(*                                                                         *)
(* A float64 amount is the record [neg, units, milli], standing for        *)
(* (-1)^neg * (units + milli/1000).  [neg |-> TRUE, units |-> 0,           *)
(* milli |-> 0] is the float -0.0.  Amounts whose third decimal is 5 and   *)
(* that are not exact binary fractions are left out of the inputs: how     *)
(* "%.2f" rounds them depends on the binary expansion of the float.        *)
(***************************************************************************)
EXTENDS Integers, Sequences, FiniteSets

VARIABLES pc, val, given, options, currency, integer, fractional, result,
          gpc, d, sep, g, stripped, regrouped

newVars == <<pc, val, given, options, currency, integer, fractional, result>>
groupVars == <<gpc, d, sep, g, stripped, regrouped>>
vars == <<pc, val, given, options, currency, integer, fractional, result,
          gpc, d, sep, g, stripped, regrouped>>

\* ------------------------------------------------------------------ bounds
\* Longest integer part (in digits) of the amounts New is called with.
MaxIntDigits == 7
\* Longest digit string separateThousands is called with on its own.
MaxDigits == 7

\* ----------------------------------------------------------- Go primitives
\* The nil interface value, as read from a missing map key.
Nil == "<nil>"

Min(a, b) == IF a < b THEN a ELSE b

RECURSIVE Pow10(_)
Pow10(k) == IF k = 0 THEN 1 ELSE 10 * Pow10(k - 1)

DigitChar(n) == CASE n = 0 -> "0" [] n = 1 -> "1" [] n = 2 -> "2"
                  [] n = 3 -> "3" [] n = 4 -> "4" [] n = 5 -> "5"
                  [] n = 6 -> "6" [] n = 7 -> "7" [] n = 8 -> "8"
                  [] n = 9 -> "9"

DigitChars == {"0", "1", "2", "3", "4", "5", "6", "7", "8", "9"}

\* Decimal digits of a natural number, most significant first ("0" for 0).
RECURSIVE FormatNat(_)
FormatNat(n) == IF n < 10 THEN <<DigitChar(n)>>
                ELSE FormatNat(n \div 10) \o <<DigitChar(n % 10)>>

\* value[lo:hi] is within bounds (otherwise Go panics).
SliceInBounds(value, lo, hi) == 0 <= lo /\ lo <= hi /\ hi <= Len(value)

\* value[lo:hi]
Slice(value, lo, hi) == SubSeq(value, lo + 1, hi)

\* value[lo:]
SliceFrom(value, lo) == SubSeq(value, lo + 1, Len(value))

\* math.Modf: integral part and fractional part, both carrying the sign of
\* the argument (so the parts of a negative float are negative, -0 included).
Modf(v) == [i |-> [neg |-> v.neg, units |-> v.units],
            f |-> [neg |-> v.neg, milli |-> v.milli]]

\* fmt.Sprintf("%.0f", i) for an integral float i.
Sprintf0f(i) == (IF i.neg THEN <<"-">> ELSE <<>>) \o FormatNat(i.units)

\* Hundredths that "%.2f" rounds milli/1000 to: round to nearest, and for an
\* exactly representable tie (.125, .375, .625, .875) to the even neighbour.
RoundHundredths(milli) ==
    LET q == milli \div 10
        r == milli % 10
    IN  IF r < 5 THEN q
        ELSE IF r > 5 THEN q + 1
        ELSE IF q % 2 = 0 THEN q ELSE q + 1

\* fmt.Sprintf("%.2f", f) for a float f with |f| < 1.
Sprintf2f(f) ==
    LET h == RoundHundredths(f.milli)
    IN  (IF f.neg THEN <<"-">> ELSE <<>>)
        \o <<DigitChar(h \div 100), ".">>
        \o <<DigitChar((h % 100) \div 10), DigitChar(h % 10)>>

\* ------------------------------------------------------------- money.go
\* splitValue, line 113: the mutant keeps one more byte of the "%.2f" text.
splitValue_keepsPoint(v) ==
    LET m == Modf(v)
    IN  [integer |-> Sprintf0f(m.i),
         fractional |-> SliceFrom(Sprintf2f(m.f), 1),
         panics |-> Len(Sprintf2f(m.f)) < 1]

splitValue(v) ==
    LET m == Modf(v)
    IN  [integer |-> Sprintf0f(m.i),
         fractional |-> SliceFrom(Sprintf2f(m.f), 2),
         panics |-> Len(Sprintf2f(m.f)) < 2]

\* separateThousands, lines 85-90: number of groups and leading remainder.
GroupCount(value) ==
    LET s == Len(value) \div 3
        m == Len(value) % 3
    IN  IF m > 0 THEN s + 1 ELSE s

GroupRemainder(value) == Len(value) % 3

\* separateThousands, lines 99-103: upper bound of the slice taken for r[i];
\* the lower bound is the loop index i itself.  The mutant takes the group
\* at byte offset 3*i instead.
GroupHi_scaled(i, m) == IF i = 0 /\ m > 0 THEN i + m ELSE 3 * i + 3

GroupHi(i, m) == IF i = 0 /\ m > 0 THEN i + m ELSE i + 3

\* strings.Join(r, separator) for r[0..n-1] given as a function of the index.
RECURSIVE JoinGroups(_, _, _)
JoinGroups(r, n, separator) ==
    IF n = 0 THEN <<>>
    ELSE IF n = 1 THEN r[0]
    ELSE JoinGroups(r, n - 1, separator) \o <<separator>> \o r[n - 1]

\* separateThousands panics iff one of its slice expressions is out of range.
separateThousandsPanics(value) ==
    LET s == GroupCount(value)
        m == GroupRemainder(value)
    IN  \E i \in 0..(s - 1) : ~SliceInBounds(value, i, GroupHi(i, m))

\* A slice that is out of range is cut at the end of the string here; the
\* caller tests separateThousandsPanics before it uses the result.
separateThousands(value, separator) ==
    LET s == GroupCount(value)
        m == GroupRemainder(value)
        r == [i \in 0..(s - 1) |-> Slice(value, i, Min(GroupHi(i, m), Len(value)))]
    IN  IF s = 0 THEN value ELSE JoinGroups(r, s, separator)

\* addSymbol: the mutant ignores symbol_first.
addSymbol_alwaysFirst(res, cur, opts) ==
    LET space == IF opts.with_symbol_space THEN <<" ">> ELSE <<>>
    IN  <<cur.symbol>> \o space \o res

addSymbol(res, cur, opts) ==
    LET space == IF opts.with_symbol_space THEN <<" ">> ELSE <<>>
    IN  IF cur.symbol_first
        THEN <<cur.symbol>> \o space \o res
        ELSE res \o space \o <<cur.symbol>>

\* addSymbol panics on the type assertion of a missing symbol_first.
addSymbolPanics(cur) == "symbol_first" \notin DOMAIN cur

\* New, line 53: the mutant forgets the subunit test.
centsShown_ignoresSubunit(opts, cur) == opts.with_cents

centsShown(opts, cur) ==
    opts.with_cents /\ "subunit" \in DOMAIN cur /\ cur.subunit # Nil

\* ------------------------------------------- currency table and options
\* The currency table: usd and eur as the package documentation shows them,
\* a currency without subunit, and two whose decimal mark is a comma, one of
\* them with the symbol after the amount.
currencies ==
    [usd |-> [iso_code |-> "USD", symbol |-> "$", subunit |-> "Cent",
              symbol_first |-> TRUE, thousands_separator |-> ",",
              decimal_mark |-> "."],
     eur |-> [iso_code |-> "EUR", symbol |-> "€", subunit |-> "Cent",
              symbol_first |-> TRUE, thousands_separator |-> ",",
              decimal_mark |-> "."],
     jpy |-> [iso_code |-> "JPY", symbol |-> "¥", subunit |-> Nil,
              symbol_first |-> TRUE, thousands_separator |-> ",",
              decimal_mark |-> "."],
     brl |-> [iso_code |-> "BRL", symbol |-> "R$", subunit |-> "Centavo",
              symbol_first |-> TRUE, thousands_separator |-> ".",
              decimal_mark |-> ","],
     sek |-> [iso_code |-> "SEK", symbol |-> "kr", subunit |-> "Ore",
              symbol_first |-> FALSE, thousands_separator |-> " ",
              decimal_mark |-> ","]]

\* A nil map: every key is missing.
NilCurrency == <<>>

\* currencies[code]: the record, or a nil map for a missing key.
Lookup(code) == IF code \in DOMAIN currencies THEN currencies[code]
                ELSE NilCurrency

\* A code that is not a key of the table.
UnknownCode == "xxx"

CurrencyCodes == DOMAIN currencies \cup {UnknownCode}

defaults == [currency |-> "usd", with_cents |-> TRUE,
             with_currency |-> FALSE, with_symbol |-> TRUE,
             with_symbol_space |-> FALSE, with_thousands_separator |-> TRUE]

OptionKeys == DOMAIN defaults

\* override: the caller's keys replace the defaults, the others are kept.
override(base, opts) ==
    [k \in DOMAIN base |-> IF k \in DOMAIN opts THEN opts[k] ELSE base[k]]

\* ------------------------------------------------------------ the inputs
\* The number written 123...k (k digits, digit j being j mod 10).
RECURSIVE Canon(_)
Canon(k) == IF k = 0 THEN 0 ELSE 10 * Canon(k - 1) + (k % 10)

UnitsValues == {0} \cup {Pow10(k - 1) : k \in 1..MaxIntDigits}
                   \cup {Canon(k) : k \in 1..MaxIntDigits}

MilliValues == {0, 4, 125, 375, 500, 994, 996, 999}

Amounts == [neg : BOOLEAN, units : UnitsValues, milli : MilliValues]

BoolKeys == OptionKeys \ {"currency"}

\* The options a caller passes: any subset of the keys, each given key set to
\* a value other than its default (a key given its default value resolves to
\* the same options as the key left out).
GivenOptions ==
    { [k \in S \cup (IF c = defaults.currency THEN {} ELSE {"currency"})
          |-> IF k = "currency" THEN c ELSE ~defaults[k]] :
      S \in SUBSET BoolKeys, c \in CurrencyCodes }

\* Digit strings of length n: position j holds "0" or the digit j mod 10.
RECURSIVE DigitStrings(_)
DigitStrings(n) ==
    IF n = 0 THEN {<<>>}
    ELSE {p \o <<c>> : p \in DigitStrings(n - 1), c \in {"0", DigitChar(n % 10)}}

Separators == {",", ".", " "}

\* --------------------------------------------------------- state machine
NewIdle ==
    /\ pc = "idle" /\ val = [neg |-> FALSE, units |-> 0, milli |-> 0]
    /\ given = <<>> /\ options = defaults /\ currency = NilCurrency
    /\ integer = <<>> /\ fractional = <<>> /\ result = <<>>

GroupIdle ==
    /\ gpc = "idle" /\ d = <<>> /\ sep = ","
    /\ g = <<>> /\ stripped = <<>> /\ regrouped = <<>>

\* A call New(val, given) is about to run; line 37 has set the defaults.
Init ==
    /\ pc = "resolve"
    /\ val \in Amounts
    /\ given \in GivenOptions
    /\ options = defaults
    /\ currency = NilCurrency
    /\ integer = <<>> /\ fractional = <<>> /\ result = <<>>
    /\ GroupIdle

\* New, lines 39-43: override the defaults, look the currency up.
Resolve ==
    /\ pc = "resolve"
    /\ options' = override(defaults, given)
    /\ currency' = Lookup(options'.currency)
    /\ pc' = "split"
    /\ UNCHANGED <<val, given, integer, fractional, result>>
    /\ UNCHANGED groupVars

\* New, line 45.
Split ==
    /\ pc = "split"
    /\ LET sv == splitValue(val)
       IN  IF sv.panics
           THEN pc' = "panic" /\ UNCHANGED <<integer, fractional>>
           ELSE /\ integer' = sv.integer
                /\ fractional' = sv.fractional
                /\ pc' = "group"
    /\ UNCHANGED <<val, given, options, currency, result>>
    /\ UNCHANGED groupVars

\* New, lines 47-51.  The type assertion of a missing thousands_separator
\* and an out-of-range slice both panic.
Group ==
    /\ pc = "group"
    /\ IF options.with_thousands_separator
       THEN IF \/ "thousands_separator" \notin DOMAIN currency
               \/ separateThousandsPanics(integer)
            THEN pc' = "panic" /\ UNCHANGED result
            ELSE /\ result' = separateThousands(integer,
                                                currency.thousands_separator)
                 /\ pc' = "cents"
       ELSE result' = integer /\ pc' = "cents"
    /\ UNCHANGED <<val, given, options, currency, integer, fractional>>
    /\ UNCHANGED groupVars

\* New, lines 53-55.
Cents ==
    /\ pc = "cents"
    /\ IF centsShown(options, currency)
       THEN IF "decimal_mark" \notin DOMAIN currency
            THEN pc' = "panic" /\ UNCHANGED result
            ELSE /\ result' = result \o <<currency.decimal_mark>> \o fractional
                 /\ pc' = "symbol"
       ELSE pc' = "symbol" /\ UNCHANGED result
    /\ UNCHANGED <<val, given, options, currency, integer, fractional>>
    /\ UNCHANGED groupVars

\* New, lines 57-59.
Symbol ==
    /\ pc = "symbol"
    /\ IF options.with_symbol
       THEN IF addSymbolPanics(currency)
            THEN pc' = "panic" /\ UNCHANGED result
            ELSE result' = addSymbol(result, currency, options) /\ pc' = "iso"
       ELSE pc' = "iso" /\ UNCHANGED result
    /\ UNCHANGED <<val, given, options, currency, integer, fractional>>
    /\ UNCHANGED groupVars

\* New, lines 61-65: "%s" of a missing iso_code prints %!s(<nil>).
Currency ==
    /\ pc = "iso"
    /\ IF options.with_currency
       THEN result' = result \o <<" ">>
                      \o <<IF "iso_code" \in DOMAIN currency
                            THEN currency.iso_code ELSE "%!s(<nil>)">>
       ELSE UNCHANGED result
    /\ pc' = "done"
    /\ UNCHANGED <<val, given, options, currency, integer, fractional>>
    /\ UNCHANGED groupVars

Next == Resolve \/ Split \/ Group \/ Cents \/ Symbol \/ Currency

Spec == Init /\ [][Next]_vars

\* separateThousands on its own: group d, strip the separators, group again.
InitGroup ==
    /\ NewIdle
    /\ gpc = "input"
    /\ d \in UNION {DigitStrings(n) : n \in 0..MaxDigits}
    /\ sep \in Separators
    /\ g = <<>> /\ stripped = <<>> /\ regrouped = <<>>

StripSeparators(s, separator) == SelectSeq(s, LAMBDA c : c # separator)

GroupDigits ==
    /\ gpc = "input"
    /\ IF separateThousandsPanics(d)
       THEN gpc' = "panic" /\ UNCHANGED g
       ELSE g' = separateThousands(d, sep) /\ gpc' = "grouped"
    /\ UNCHANGED <<d, sep, stripped, regrouped>>
    /\ UNCHANGED newVars

StripGrouped ==
    /\ gpc = "grouped"
    /\ stripped' = StripSeparators(g, sep)
    /\ gpc' = "stripped"
    /\ UNCHANGED <<d, sep, g, regrouped>>
    /\ UNCHANGED newVars

Regroup ==
    /\ gpc = "stripped"
    /\ IF separateThousandsPanics(stripped)
       THEN gpc' = "panic" /\ UNCHANGED regrouped
       ELSE regrouped' = separateThousands(stripped, sep) /\ gpc' = "regrouped"
    /\ UNCHANGED <<d, sep, g, stripped>>
    /\ UNCHANGED newVars

NextGroup == GroupDigits \/ StripGrouped \/ Regroup

SpecGroup == InitGroup /\ [][NextGroup]_vars

TypeOK ==
    /\ pc \in {"idle", "resolve", "split", "group", "cents", "symbol", "iso",
               "done", "panic"}
    /\ gpc \in {"idle", "input", "grouped", "stripped", "regrouped", "panic"}

\* Under FairSpec a call that has started runs on until it returns or panics.
FairSpec == Spec /\ WF_vars(Next)

\* ------------------------------------------------------------ properties
\* The currency named by the resolved options is a key of the table.
Known == options.currency \in DOMAIN currencies

\* The caller named a currency that is not a key of the table.
UnknownGiven == "currency" \in DOMAIN given /\ given.currency \notin DOMAIN currencies

\* Lines 39-43 have run.
Resolved == pc \notin {"idle", "resolve"}

\* Line 45 has run and did not panic.
SplitDone == pc \in {"group", "cents", "symbol", "iso", "done"}

\* The caller left every option but (possibly) the currency at its default.
DefaultsButCurrency == DOMAIN given \subseteq {"currency"}

Amount(n) == [neg |-> FALSE, units |-> n, milli |-> 0]

\* The digits of ds in order, with the separator before every block of three
\* digits counted from the right.
RECURSIVE ReferenceGrouping(_, _)
ReferenceGrouping(ds, separator) ==
    IF Len(ds) <= 3 THEN ds
    ELSE ReferenceGrouping(SubSeq(ds, 1, Len(ds) - 3), separator)
         \o <<separator>> \o SubSeq(ds, Len(ds) - 2, Len(ds))

\* The integer part as New shows it, before cents, symbol and ISO code.
IntegerBody ==
    IF options.with_thousands_separator
    THEN separateThousands(integer, currency.thousands_separator)
    ELSE integer

\* An amount text framed by the symbol and the ISO code the options ask for.
Framed(body) ==
    LET space == IF options.with_symbol_space THEN <<" ">> ELSE <<>>
        symbolled == IF ~options.with_symbol THEN body
                     ELSE IF currency.symbol_first
                          THEN <<currency.symbol>> \o space \o body
                          ELSE body \o space \o <<currency.symbol>>
    IN  IF options.with_currency
        THEN symbolled \o <<" ", currency.iso_code>>
        ELSE symbolled

\* C1: for every non-empty digit string d and separator sep,
\* separateThousands(d, sep) is d with sep inserted at every multiple of
\* three digits from the right.
C1_GroupingMatchesReference ==
    (gpc = "grouped" /\ Len(d) > 0) => g = ReferenceGrouping(d, sep)

\* C2: a non-negative amount whose fraction rounds up to 1.00 carries into
\* the integer part: the integer part shown is the truncated one plus one,
\* the fraction shown is "00", and New(0.999) with defaults is "$1.00".
C2_RoundingCarries ==
    (pc = "done" /\ Known /\ ~val.neg /\ RoundHundredths(val.milli) = 100)
    => /\ integer = FormatNat(val.units + 1)
       /\ fractional = <<"0", "0">>
       /\ (val.units = 0 /\ val.milli = 999 /\ options = defaults)
          => result = <<"$", "1", ".", "0", "0">>

\* C3: with a null subunit the output is the integer part framed by symbol
\* and ISO code, without decimal mark or fractional digits, whatever
\* with_cents is; with a non-null subunit the decimal mark and the
\* fractional digits follow the integer part exactly when with_cents is set.
C3_CentsOnlyWithSubunit ==
    (pc = "done" /\ Known)
    => LET cents == <<currency.decimal_mark>> \o fractional
       IN  /\ currency.subunit = Nil => result = Framed(IntegerBody)
           /\ (currency.subunit # Nil /\ options.with_cents)
              => result = Framed(IntegerBody \o cents)
           /\ (currency.subunit # Nil /\ ~options.with_cents)
              => result = Framed(IntegerBody)

C3_Witness ==
    /\ pc = "done" /\ options.currency = "jpy" /\ options.with_cents
    /\ val.units = 10 /\ val.milli = 500 /\ ~val.neg
    /\ options = [defaults EXCEPT !.currency = "jpy"]
    /\ result = <<"¥", "1", "0">>

\* The result of a finished call New(v, o) is expected.
Returns(v, o, expected) ==
    (pc = "done" /\ val = v /\ options = o) => result = expected

\* C4: the usage table of the package documentation: New(10) = "$10.00",
\* New(1000) = "$1,000.00", and each single overridden option gives the
\* documented string.
C4_UsageTable ==
    /\ Returns(Amount(10), defaults, <<"$", "1", "0", ".", "0", "0">>)
    /\ Returns(Amount(1000), defaults,
               <<"$", "1", ",", "0", "0", "0", ".", "0", "0">>)
    /\ Returns(Amount(10), [defaults EXCEPT !.with_cents = FALSE],
               <<"$", "1", "0">>)
    /\ Returns(Amount(10), [defaults EXCEPT !.with_currency = TRUE],
               <<"$", "1", "0", ".", "0", "0", " ", "USD">>)
    /\ Returns(Amount(10), [defaults EXCEPT !.with_symbol = FALSE],
               <<"1", "0", ".", "0", "0">>)
    /\ Returns(Amount(10), [defaults EXCEPT !.with_symbol_space = TRUE],
               <<"$", " ", "1", "0", ".", "0", "0">>)
    /\ Returns(Amount(1000),
               [defaults EXCEPT !.with_thousands_separator = FALSE],
               <<"$", "1", "0", "0", "0", ".", "0", "0">>)
    /\ Returns(Amount(10), [defaults EXCEPT !.currency = "eur"],
               <<"€", "1", "0", ".", "0", "0">>)

C4_Witness ==
    /\ pc = "done" /\ val = Amount(1000) /\ options = defaults
    /\ result = <<"$", "1", ",", "0", "0", "0", ".", "0", "0">>

\* C5 as stated: for every currency record New(0) with default options is
\* the symbol and "0.00", the symbol first or last as symbol_first says.
C5_ZeroIsSymbolAndZeroPointZeroZero ==
    (pc = "done" /\ Known /\ val = Amount(0) /\ DefaultsButCurrency)
    => result = IF currency.symbol_first
                THEN <<currency.symbol, "0", ".", "0", "0">>
                ELSE <<"0", ".", "0", "0", currency.symbol>>

\* C5 as amended: New(0) with default options is "0", followed by the
\* record's own decimal mark and "00" only when its subunit is non-null,
\* with the symbol before it when symbol_first is true and after it otherwise.
C5_ZeroFollowsCurrencyRecord ==
    (pc = "done" /\ Known /\ val = Amount(0) /\ DefaultsButCurrency)
    => LET amount == IF currency.subunit # Nil
                     THEN <<"0", currency.decimal_mark, "0", "0">>
                     ELSE <<"0">>
       IN  result = IF currency.symbol_first
                    THEN <<currency.symbol>> \o amount
                    ELSE amount \o <<currency.symbol>>

C5_Witness ==
    /\ pc = "done" /\ val = Amount(0) /\ DefaultsButCurrency
    /\ options.currency = "sek"
    /\ result = <<"0", ",", "0", "0", "kr">>

\* C6: a call with a supported currency never panics, every slice that
\* separateThousands takes of the integer part is within its bounds, the
\* "%.2f" text is long enough for [2:], and the call returns.
C6_NewAlwaysReturns ==
    /\ []((Resolved /\ Known)
          => /\ pc # "panic"
             /\ Len(Sprintf2f(Modf(val).f)) >= 2
             /\ SplitDone =>
                  \A i \in 0..(GroupCount(integer) - 1) :
                     SliceInBounds(integer, i,
                                   GroupHi(i, GroupRemainder(integer))))
    /\ <>(pc = "done" \/ UnknownGiven)

C6_Witness ==
    /\ pc = "done" /\ Known /\ val.neg
    /\ options.with_thousands_separator
    /\ Len(integer) = MaxIntDigits + 1
    /\ GroupCount(integer) = 3

\* C7: a call that names a currency missing from the table ends neither in
\* a panic nor in a returned formatted string, but in a reported error.
C7_UnknownCurrencyIsReported ==
    (Resolved /\ ~Known) => pc \notin {"panic", "done"}

\* C8: stripping the separators from g = separateThousands(d, sep) gives d
\* back, and grouping the stripped string again gives g.
C8_GroupingIdempotent ==
    /\ gpc \in {"stripped", "regrouped"} => stripped = d
    /\ gpc = "regrouped" => regrouped = g

\* C9: the fractional string of splitValue is exactly two decimal digits,
\* the hundredths of the absolute fractional part, negative amounts included.
C9_FractionalIsTwoDigits ==
    SplitDone
    => /\ Len(fractional) = 2
       /\ \A i \in 1..Len(fractional) : fractional[i] \in DigitChars
       /\ LET h == RoundHundredths(val.milli)
          IN  h < 100 => fractional = <<DigitChar(h \div 10), DigitChar(h % 10)>>

\* C10: for a negative amount grouped with the thousands separator, the
\* grouped integer part is the minus sign followed by the grouping of the
\* absolute value, so no separator directly follows the sign.
C10_SignComposesWithGrouping ==
    (pc = "cents" /\ Known /\ val.neg /\ options.with_thousands_separator)
    => result = <<"-">> \o ReferenceGrouping(FormatNat(val.units),
                                             currency.thousands_separator)

====
